---- MODULE Spec2Model ----
(***************************************************************************)
(* Simplicial homology (H0, H1, H2) of the complex built from a graph.     *)
(*                                                                         *)
(* The repository is a collection of pure functions driven by small batch  *)
(* loops.  The specifications apply them to bounded inputs:                *)
(*   SpecFaces   : is_simp_cplx and complete_simp_cplx on face lists, as   *)
(*                 the batch loop of homology.py calls them;               *)
(*   SpecHom     : boundary and homology on downward-closed face lists;    *)
(*   Spec        : the graph pipeline (cycle detection, complex building,  *)
(*                 homology_from_graph, preprocess);                       *)
(*   SpecFair    : Spec with the while loop of preprocess scheduled;       *)
(*   SpecListing : the detectors and the builder on a second listing of    *)
(*                 the adjacency mapping;                                  *)
(*   SpecRun     : run() on a batch of graphs.                             *)
(* Faces and tuples are sequences of integers.  Python lists are           *)
(* sequences, Python sets are sets.                                        *)
(***************************************************************************)
EXTENDS Integers, Sequences, FiniteSets, TLC

VARIABLES
    pc,            \* position of the driver
    X,             \* SpecFaces: the vertex list complex["X"]
    faces,         \* SpecFaces/SpecHom: the face list object complex["A"]
    faces0,        \* SpecFaces: the face list as it was loaded
    valid,         \* SpecFaces: what is_simp_cplx(X, A) returned
    completed,     \* SpecFaces: what complete_simp_cplx returned
    mod_2,         \* coefficient field flag
    H,             \* the homology dimensions computed so far
    H_set,         \* Spec: the triple of src/simplicial_homology_from_graph.py
    ker,           \* ker[n+1]: len(ker_del_n) of the call homology(n, ...)
    rk,            \* rk[n+1]: rank_del_n_plus_one of the call homology(n, ...)
    vertices,      \* Spec: the vertex collection of the graph
    adj,           \* Spec: the adjacency mapping, vertex -> list of neighbours
    triangles,     \* Spec: detect_3_cycles(adj), bitset variant
    four_cycles,   \* Spec: detect_4_cycles(adj), bitset variant
    triangles_set,    \* Spec: detect_3_cycles(adj), set-based variant
    four_cycles_set,  \* Spec: detect_4_cycles(adj), set-based variant
    A,             \* Spec: the face set returned by build_simplicial_complex
    neighbors,     \* Spec: preprocess's working mapping, vertex -> set
    removed,       \* Spec: preprocess's removed set
    changed,       \* Spec: preprocess's loop flag
    reduced,       \* Spec: what preprocess returned, [vertices, adj]
    Hred,          \* Spec: homology_from_graph of the reduced graph
    A_set,         \* Spec: the face set built by src/cycle_detection.py
    delta_n,           \* SpecHom: boundary(n, faces) of the last homology call
    delta_n_plus_one,  \* SpecHom: boundary(n+1, faces) of the last call
    listing,       \* SpecListing: how adj_alt lists the graph of adj
    adj_alt,       \* SpecListing: a second adjacency mapping of the graph
    alt,           \* SpecListing: what the detectors and the builder
                   \* returned on adj_alt
    graphs,        \* SpecRun: the list load_graphs returned
    gi,            \* SpecRun: position of run()'s for loop in graphs
    printed        \* SpecRun: the triples run() has printed

facesVars == <<X, faces0, valid, completed>>
homVars == <<mod_2, H, H_set, ker, rk>>
detectVars == <<triangles, four_cycles, triangles_set, four_cycles_set>>
preVars == <<neighbors, removed, changed, reduced, Hred>>
graphVars == <<vertices, adj, detectVars, A, preVars>>
deltaVars == <<delta_n, delta_n_plus_one>>
listVars == <<listing, adj_alt, alt>>
runVars == <<graphs, gi, printed>>
vars == <<pc, faces, facesVars, homVars, graphVars, A_set, deltaVars,
          listVars, runVars>>

----------------------------------------------------------------------------
(* Bounds *)

\* vertex labels are 1..MaxLabel
MaxLabel == 3
\* a complex handed to homology() is generated by at most MaxGens faces
MaxGens == 3
\* the vertices of a graph are among 1..MaxV
MaxV == 4
\* a loaded face list has at most MaxFaces entries
MaxFaces == 2
\* a face set that need not be closed has at most MaxOpen faces
MaxOpen == 4
\* a batch of run() holds at most MaxBatch graphs
MaxBatch == 2
\* the graphs of a batch have the vertices 1..k, k at most MaxBatchV
MaxBatchV == 2
\* the combinations of per-dimension face orders a complex is walked in
MaxOrders == 144

Labels == 1..MaxLabel

----------------------------------------------------------------------------
(* Python built-ins *)

Range(s) == {s[i] : i \in 1..Len(s)}

Min(S) == CHOOSE x \in S : \A y \in S : x <= y

RECURSIVE SortSet(_)
\* sorted(S) for a set of integers
SortSet(S) == IF S = {} THEN <<>>
              ELSE LET m == Min(S) IN <<m>> \o SortSet(S \ {m})

RECURSIVE Orderings(_)
\* the orders in which "for x in S" can meet the elements of a set S
Orderings(S) ==
    IF S = {} THEN {<<>>}
    ELSE UNION {{<<x>> \o p : p \in Orderings(S \ {x})} : x \in S}

RECURSIVE Insert(_, _)
Insert(x, s) == IF s = <<>> THEN <<x>>
                ELSE IF x <= Head(s) THEN <<x>> \o s
                ELSE <<Head(s)>> \o Insert(x, Tail(s))

RECURSIVE Sorted(_)
\* sorted(t) for a tuple or list of integers (repeated entries are kept)
Sorted(t) == IF t = <<>> THEN <<>> ELSE Insert(Head(t), Sorted(Tail(t)))

RECURSIVE Combinations(_, _)
\* itertools.combinations(t, k), in the order itertools yields them
Combinations(t, k) ==
    IF k = 0 THEN << <<>> >>
    ELSE IF Len(t) < k THEN <<>>
    ELSE LET with == Combinations(Tail(t), k - 1)
         IN [i \in 1..Len(with) |-> <<Head(t)>> \o with[i]]
            \o Combinations(Tail(t), k)

RECURSIVE Flatten(_)
\* concatenation of a sequence of sequences
Flatten(ss) == IF ss = <<>> THEN <<>> ELSE Head(ss) \o Flatten(Tail(ss))

\* the tuples itertools.combinations(t, r) yields for r = 1 .. len(t)-1, in order
StrictSubsets(t) ==
    Flatten([r \in 1..(Len(t) - 1) |-> Combinations(t, r)])

----------------------------------------------------------------------------
(* homology.py: validation and completion *)

z_mod_2(x) == x % 2 = 0

\* set(tuple(sorted(face)) for face in faces)
FacesSet(fs) == {Sorted(fs[i]) : i \in 1..Len(fs)}

\* is_simp_cplx(vertices, faces): the singleton entries are counted against
\* len(vertices), then every strict subset of every face is looked up
is_simp_cplx(verts, fs) ==
    LET singletons == {i \in 1..Len(fs) : Len(fs[i]) = 1}
        faces_set == FacesSet(fs)
    IN  /\ Cardinality(singletons) = Len(verts)
        /\ \A sigma \in faces_set :
              \A tau \in Range(StrictSubsets(sigma)) : Sorted(tau) \in faces_set

RECURSIVE AppendMissing(_, _, _)
\* the two inner loops of complete_simp_cplx for one face: walk the subsets in
\* order, append each one that is not in seen; returns <<faces, seen>>
AppendMissing(subsets, fs, seen) ==
    IF subsets = <<>> THEN <<fs, seen>>
    ELSE LET subset_sorted == Sorted(Head(subsets))
         IN IF subset_sorted \notin seen
            THEN AppendMissing(Tail(subsets), Append(fs, subset_sorted),
                               seen \cup {subset_sorted})
            ELSE AppendMissing(Tail(subsets), fs, seen)

RECURSIVE CompleteFrom(_, _, _, _)
\* the outer loop of complete_simp_cplx: for i in range(original_length)
CompleteFrom(i, original_length, fs, seen) ==
    IF i > original_length THEN fs
    ELSE LET r == AppendMissing(StrictSubsets(fs[i]), fs, seen)
         IN CompleteFrom(i + 1, original_length, r[1], r[2])

\* a completion that only adds the codimension-1 subsets of each listed face
complete_codim1(fs) ==
    LET RECURSIVE Go(_, _, _)
        Go(i, cur, seen) ==
            IF i > Len(fs) THEN cur
            ELSE LET n == Len(fs[i])
                     r == AppendMissing(
                            IF n >= 2 THEN Combinations(fs[i], n - 1) ELSE <<>>,
                            cur, seen)
                 IN Go(i + 1, r[1], r[2])
    IN Go(1, fs, FacesSet(fs))

\* a completion that appends every subset without consulting seen
complete_no_seen(fs) ==
    fs \o Flatten([i \in 1..Len(fs) |->
                     LET ss == StrictSubsets(fs[i])
                     IN [j \in 1..Len(ss) |-> Sorted(ss[j])]])

\* complete_simp_cplx(faces): the list object passed in is extended in place and
\* returned
complete_simp_cplx(fs) == CompleteFrom(1, Len(fs), fs, FacesSet(fs))

----------------------------------------------------------------------------
(* homology.py: boundary matrices, rank, nullity, homology *)

\* a matrix is [rows, cols, m] with m[r][c] its entries (1-based)
Matrix(rows, cols, m) == [rows |-> rows, cols |-> cols, m |-> m]

\* an A_n that returns the faces in the opposite order
A_n_backwards(n, fs) ==
    LET IsN(sigma) == Len(sigma) = n + 1
        sel == SelectSeq(fs, IsN)
    IN [i \in 1..Len(sel) |-> Sorted(sel[Len(sel) + 1 - i])]

\* A_n(n, faces): the faces of n+1 vertices, each sorted, in the order of faces
A_n(n, fs) ==
    LET IsN(sigma) == Len(sigma) = n + 1
        sel == SelectSeq(fs, IsN)
    IN [i \in 1..Len(sel) |-> Sorted(sel[i])]

\* list.index(x): the first position of x (1-based)
IndexOf(s, x) == Min({i \in 1..Len(s) : s[i] = x})

\* a deletion that drops the vertex after position p (the first after the last)
DeleteAt_next(sigma, p) ==
    SubSeq(sigma, 1, p % Len(sigma)) \o SubSeq(sigma, (p % Len(sigma)) + 2, Len(sigma))

\* sigma[:i] + sigma[i+1:] for the 1-based position p = i + 1
DeleteAt(sigma, p) == SubSeq(sigma, 1, p - 1) \o SubSeq(sigma, p + 1, Len(sigma))

\* a sign that is +1 at every position
Sign_plus(i) == 1

\* a sign that starts with -1
Sign_shifted(i) == IF i % 2 = 0 THEN -1 ELSE 1

\* (-1) ** i
Sign(i) == IF i % 2 = 0 THEN 1 ELSE -1

\* a boundary whose row lookup answers -1 for a face that is not among the
\* rows, so that the entry lands in the last row
boundary_last_row(n, fs) ==
    LET n_simplices == A_n(n, fs)
        n_minus_one_simplices == A_n(n - 1, fs)
        present == Range(n_minus_one_simplices)
        RowOf ==
            [col \in 1..Len(n_simplices) |->
               [p \in 1..Len(n_simplices[col]) |->
                  LET face == Sorted(DeleteAt(n_simplices[col], p))
                  IN IF face \in present
                     THEN IndexOf(n_minus_one_simplices, face)
                     ELSE Len(n_minus_one_simplices)]]
        Entry(row, col) ==
            LET hits == {p \in 1..Len(n_simplices[col]) : RowOf[col][p] = row}
            IN IF hits = {} THEN 0
               ELSE Sign((CHOOSE p \in hits : \A q \in hits : q <= p) - 1)
    IN Matrix(Len(n_minus_one_simplices), Len(n_simplices),
              [row \in 1..Len(n_minus_one_simplices) |->
                 [col \in 1..Len(n_simplices) |-> Entry(row, col)]])

\* boundary(n, faces): rows are A_n(n-1), columns are A_n(n); the entry for
\* (row of sigma without its i-th vertex, column of sigma) is assigned (-1)^i
\* when that face is among the rows; a later assignment overwrites an earlier.
\* RowOf[col][p] is the row (1-based) that i = p - 1 writes to, 0 for none
boundary(n, fs) ==
    LET n_simplices == A_n(n, fs)
        n_minus_one_simplices == A_n(n - 1, fs)
        present == Range(n_minus_one_simplices)
        RowOf ==
            [col \in 1..Len(n_simplices) |->
               [p \in 1..Len(n_simplices[col]) |->
                  LET face == Sorted(DeleteAt(n_simplices[col], p))
                  IN IF face \in present
                     THEN IndexOf(n_minus_one_simplices, face)
                     ELSE 0]]
        Entry(row, col) ==
            LET hits == {p \in 1..Len(n_simplices[col]) : RowOf[col][p] = row}
            IN IF hits = {} THEN 0
               ELSE Sign((CHOOSE p \in hits : \A q \in hits : q <= p) - 1)
    IN Matrix(Len(n_minus_one_simplices), Len(n_simplices),
              [row \in 1..Len(n_minus_one_simplices) |->
                 [col \in 1..Len(n_simplices) |-> Entry(row, col)]])

\* the zero test of the elimination: z_mod_2 when it is passed as iszerofunc,
\* the exact test otherwise
IsZero(x, mod2) == IF mod2 THEN z_mod_2(x) ELSE x = 0

RECURSIVE RowReduce(_, _, _, _, _, _, _)
\* sympy's fraction-free row reduction, returning the number of pivots: in
\* column piv_col the first entry at or below piv_row that the zero test does
\* not call zero is the pivot; its row is swapped up and every row below with
\* a non-zero entry val becomes pivot_val*row - val*pivot_row
RowReduce(m, rows, cols, piv_row, piv_col, pivots, mod2) ==
    IF piv_col > cols \/ piv_row > rows THEN pivots
    ELSE LET cand == {r \in piv_row..rows : ~IsZero(m[r][piv_col], mod2)}
         IN IF cand = {}
            THEN RowReduce(m, rows, cols, piv_row, piv_col + 1, pivots, mod2)
            ELSE LET p == Min(cand)
                     swapped == [m EXCEPT ![piv_row] = m[p], ![p] = m[piv_row]]
                     pivot_row == swapped[piv_row]
                     pivot_val == pivot_row[piv_col]
                     cancelled ==
                         [r \in 1..rows |->
                            IF r <= piv_row \/ IsZero(swapped[r][piv_col], mod2)
                            THEN swapped[r]
                            ELSE LET val == swapped[r][piv_col]
                                 IN [c \in 1..cols |->
                                       pivot_val * swapped[r][c]
                                       - val * pivot_row[c]]]
                 IN RowReduce(cancelled, rows, cols, piv_row + 1, piv_col,
                              pivots + 1, mod2)

\* Matrix.rank(iszerofunc): 0 for a matrix without rows or columns, the
\* number of pivots otherwise
rank(M, mod2) ==
    IF M.rows <= 0 \/ M.cols <= 0 THEN 0
    ELSE RowReduce(M.m, M.rows, M.cols, 1, 1, 0, mod2)

\* a nullity that is 0 for a matrix without rows
nullity_no_rows(M) ==
    IF M.rows <= 0 THEN 0
    ELSE M.cols - RowReduce(M.m, M.rows, M.cols, 1, 1, 0, FALSE)

\* len(Matrix.nullspace()): one basis vector per column that is not a pivot
\* column of the exact reduction
nullity(M) ==
    IF M.rows <= 0 THEN M.cols
    ELSE M.cols - RowReduce(M.m, M.rows, M.cols, 1, 1, 0, FALSE)

\* len(ker_del_n) in homology(n, faces, mod_2): both branches take the kernel
\* with the exact nullspace()
ker_del_n(n, fs, mod2) == nullity(boundary(n, fs))

\* rank_del_n_plus_one in homology(n, faces, mod_2): rank() on the first
\* branch, rank(iszerofunc=z_mod_2) on the second
rank_del_n_plus_one(n, fs, mod2) == rank(boundary(n + 1, fs), mod2)

\* a homology that returns the kernel dimension and forgets the image
homology_kernel_only(n, fs, mod2) == ker_del_n(n, fs, mod2)

\* homology(n, faces, mod_2)
homology(n, fs, mod2) == ker_del_n(n, fs, mod2) - rank_del_n_plus_one(n, fs, mod2)

----------------------------------------------------------------------------
(* SpecFaces: the batch loop of homology.py on one loaded complex *)

RECURSIVE Reverse(_)
Reverse(s) == IF s = <<>> THEN <<>> ELSE Append(Reverse(Tail(s)), Head(s))

\* the faces a loaded list may hold: every non-empty set of labels, written in
\* ascending or in descending order
FaceUniverse ==
    UNION {{SortSet(S), Reverse(SortSet(S))} : S \in (SUBSET Labels) \ {{}}}

\* the face lists of at most MaxFaces entries
FaceLists == UNION {[1..n -> FaceUniverse] : n \in 0..MaxFaces}

\* the vertex lists [1, ..., k]
VertexLists == {SortSet(1..k) : k \in 0..MaxLabel}

NoH == <<-1, -1, -1>>

\* no matrix has been computed
NoMatrix == [rows |-> 0, cols |-> 0, m |-> <<>>]

\* no second listing of the graph was given
NoListing ==
    /\ listing = <<"none">>
    /\ adj_alt = <<>>
    /\ alt = <<>>

\* run() has not been given a batch
NoRun ==
    /\ graphs = <<>>
    /\ gi = 0
    /\ printed = <<>>

\* the graph pipeline has not been given a graph
NoGraph ==
    /\ vertices = {}
    /\ adj = <<>>
    /\ triangles = <<>>
    /\ four_cycles = <<>>
    /\ triangles_set = <<>>
    /\ four_cycles_set = <<>>
    /\ A = {}
    /\ neighbors = <<>>
    /\ removed = {}
    /\ changed = FALSE
    /\ reduced = [vertices |-> {}, adj |-> <<>>]
    /\ Hred = NoH
    /\ A_set = {}
    /\ NoListing

InitFaces ==
    /\ pc = "loaded"
    /\ X \in VertexLists
    /\ faces \in FaceLists
    /\ faces0 = faces
    /\ valid = FALSE
    /\ completed = <<>>
    /\ mod_2 = FALSE
    /\ H = NoH
    /\ H_set = NoH
    /\ ker = NoH
    /\ rk = NoH
    /\ delta_n = NoMatrix
    /\ delta_n_plus_one = NoMatrix
    /\ NoGraph
    /\ NoRun

\* homology.py line 123: is_simp_cplx(X, A) is evaluated and printed
IsSimpCplx ==
    /\ pc = "loaded"
    /\ valid' = is_simp_cplx(X, faces)
    /\ pc' = "checked"
    /\ UNCHANGED <<X, faces, faces0, completed, homVars, graphVars, A_set,
                   deltaVars, listVars, runVars>>

\* homology.py lines 125-138: the test "is_simp_cplx == True" compares the
\* function object with True, so the else branch always runs and the loaded
\* list is completed in place
Complete ==
    /\ pc = "checked"
    /\ faces' = complete_simp_cplx(faces)
    /\ completed' = faces'
    /\ pc' = "completed"
    /\ UNCHANGED <<X, faces0, valid, homVars, graphVars, A_set, deltaVars,
                   listVars, runVars>>


----------------------------------------------------------------------------
(* SpecHom: homology(0..2, A, mod_2) on a downward-closed face list *)

\* Python's order on tuples: lexicographic, a proper prefix first
TupleLess(a, b) ==
    \E k \in 1..(Len(a) + 1) :
        /\ k <= Len(b)
        /\ \A j \in 1..(k - 1) : a[j] = b[j]
        /\ (k > Len(a) \/ a[k] < b[k])

RECURSIVE SortFaces(_)
\* sorted(S) for a set of tuples
SortFaces(S) ==
    IF S = {} THEN <<>>
    ELSE LET m == CHOOSE f \in S : \A g \in S \ {f} : TupleLess(f, g)
         IN <<m>> \o SortFaces(S \ {m})

\* the faces with ascending vertices over the labels
SortedFaceUniverse == {SortSet(S) : S \in (SUBSET Labels) \ {{}}}

\* the downward closure of a set of sorted faces
Closure(G) == UNION {{SortSet(T) : T \in (SUBSET Range(g)) \ {{}}} : g \in G}

\* the 6-vertex triangulation of the projective plane
RP2Triangles ==
    { <<1, 2, 4>>, <<1, 2, 6>>, <<1, 3, 4>>, <<1, 3, 5>>, <<1, 5, 6>>,
      <<2, 3, 5>>, <<2, 3, 6>>, <<2, 4, 5>>, <<3, 4, 6>>, <<4, 5, 6>> }

\* the valid complexes handed to homology(): the closure of up to MaxGens
\* faces over the labels, and the projective plane
ValidComplexes ==
    {Closure(G) : G \in {g \in SUBSET SortedFaceUniverse : Cardinality(g) <= MaxGens}}
    \cup {Closure(RP2Triangles)}

\* the faces of K of dimension d
FacesOfDim(K, d) == {f \in K : Len(f) = d + 1}

\* the largest dimension of a face of K (-1 for no face)
TopDim(K) == IF K = {} THEN -1
             ELSE CHOOSE d \in {Len(f) - 1 : f \in K} :
                      \A f \in K : Len(f) - 1 <= d

\* a count that is not followed beyond MaxOrders
Capped(k) == IF k > MaxOrders THEN MaxOrders + 1 ELSE k

RECURSIVE Factorial(_)
\* k!, capped
Factorial(k) == IF k <= 1 THEN 1 ELSE Capped(k * Factorial(k - 1))

RECURSIVE OrdersPerDimFrom(_, _)
\* the number of ways to order the faces of K within each dimension from d
\* up, capped
OrdersPerDimFrom(K, d) ==
    IF d > TopDim(K) THEN 1
    ELSE Capped(Factorial(Cardinality(FacesOfDim(K, d)))
                * OrdersPerDimFrom(K, d + 1))

RECURSIVE WalksByDimFrom(_, _)
\* the walks of K that meet the faces of dimension d, then d + 1, and so on
WalksByDimFrom(K, d) ==
    IF d > TopDim(K) THEN {<<>>}
    ELSE UNION {{p \o q : q \in WalksByDimFrom(K, d + 1)}
                : p \in Orderings(FacesOfDim(K, d))}

\* the orders in which A_n's "for sigma in faces" can walk a set K: the order
\* of the set's hash table, which the hashes of the faces and the insertions
\* decide.  The hash of a str label is seeded anew in every process (run()
\* hands the labels of the JSON file, which are strings) and the hash of a
\* tuple differs between versions of the interpreter, so every order is one a
\* run can produce; every A_n of one run walks the same unchanged set, so in
\* the same order.  Every sequence that lists each face of K once, written
\* over the functions 1..|K| -> K so that a walk is recognised without listing
\* the set.
WalkedOrders(K) == {w \in [1..Cardinality(K) -> K] : Range(w) = K}

\* the collections of S that are handed to homology() as Python sets: a bound
\* on the inputs, those with at most MaxOrders combinations of orders within
\* their dimensions
WithinOrders(S) == {K \in S : OrdersPerDimFrom(K, 0) <= MaxOrders}

\* the walks of the sets of S.  A_n(n, faces) keeps of a walk the relative
\* order of the n-faces alone, so two walks that agree within every dimension
\* give the same bases and the same matrices: each set is walked once for
\* every combination of orders within its dimensions.
WalksOf(S) == UNION {WalksByDimFrom(K, 0) : K \in S}

\* the lists a caller hands to homology() for the face collections of S:
\* homology() takes any iterable, __main__ of homology.py a list loaded from
\* the JSON file; the caller lists the faces ascending or descending
CallerLists(S) == UNION {{SortFaces(K), Reverse(SortFaces(K))} : K \in S}

\* the sequences in which A_n meets the faces of the collections of S: handed
\* over as a set (within the bound) in any order, as a list in the order of
\* the list
FaceSequences(S) == WalksOf(WithinOrders(S)) \cup CallerLists(S)

InitHom ==
    /\ pc = "h0"
    /\ faces \in FaceSequences(ValidComplexes)
    /\ mod_2 \in BOOLEAN
    /\ H = NoH
    /\ H_set = NoH
    /\ ker = NoH
    /\ rk = NoH
    /\ X = <<>>
    /\ faces0 = faces
    /\ valid = TRUE
    /\ completed = <<>>
    /\ delta_n = NoMatrix
    /\ delta_n_plus_one = NoMatrix
    /\ NoGraph
    /\ NoRun

\* one call homology(n, A, mod_2) of homology_from_graph, n = 0, 1, 2
HomologyCall(n, here, next) ==
    /\ pc = here
    /\ H' = [H EXCEPT ![n + 1] = homology(n, faces, mod_2)]
    /\ ker' = [ker EXCEPT ![n + 1] = ker_del_n(n, faces, mod_2)]
    /\ rk' = [rk EXCEPT ![n + 1] = rank_del_n_plus_one(n, faces, mod_2)]
    /\ delta_n' = boundary(n, faces)
    /\ delta_n_plus_one' = boundary(n + 1, faces)
    /\ pc' = next
    /\ UNCHANGED <<faces, facesVars, mod_2, H_set, graphVars, A_set,
                   listVars, runVars>>

Homology0 == HomologyCall(0, "h0", "h1")
Homology1 == HomologyCall(1, "h1", "h2")
Homology2 == HomologyCall(2, "h2", "done")

NextHom == Homology0 \/ Homology1 \/ Homology2

SpecHom == InitHom /\ [][NextHom]_vars

----------------------------------------------------------------------------
(* SpecFaces, continued: the homology of the completed list; SpecTwice:
   complete_simp_cplx applied twice *)

\* homology.py lines 144-146: homology(n, completed_complex_A) is printed for
\* n = 0, 1, 2 (mod_2 is left at its default, False); the completed list is
\* the loaded list, which may hold a face twice or with its vertices descending
CompletedHomology ==
    /\ pc = "completed"
    /\ H' = <<homology(0, faces, FALSE), homology(1, faces, FALSE),
              homology(2, faces, FALSE)>>
    /\ pc' = "printed"
    /\ UNCHANGED <<faces, facesVars, mod_2, H_set, ker, rk, graphVars, A_set,
                   deltaVars, listVars, runVars>>

NextFaces == IsSimpCplx \/ Complete \/ CompletedHomology

SpecFaces == InitFaces /\ [][NextFaces]_vars

\* complete_simp_cplx applied to the list it returned; __main__ applies it
\* once, a caller that completes a completed list takes this step
CompleteAgain ==
    /\ pc = "completed"
    /\ faces' = complete_simp_cplx(faces)
    /\ pc' = "completed2"
    /\ UNCHANGED <<facesVars, homVars, graphVars, A_set, deltaVars,
                   listVars, runVars>>

NextTwice == IsSimpCplx \/ Complete \/ CompleteAgain

SpecTwice == InitFaces /\ [][NextTwice]_vars

\* the face sets handed to boundary() and homology() without any closure:
\* every set of at most MaxOpen sorted faces
OpenFaceSets == {S \in SUBSET SortedFaceUniverse : Cardinality(S) <= MaxOpen}

InitOpen ==
    /\ pc = "h0"
    /\ faces \in FaceSequences(OpenFaceSets)
    /\ mod_2 = FALSE
    /\ H = NoH
    /\ H_set = NoH
    /\ ker = NoH
    /\ rk = NoH
    /\ X = <<>>
    /\ faces0 = faces
    /\ valid = FALSE
    /\ completed = <<>>
    /\ delta_n = NoMatrix
    /\ delta_n_plus_one = NoMatrix
    /\ NoGraph
    /\ NoRun

\* homology(0..2, faces) on a face set that need not be downward-closed
SpecOpen == InitOpen /\ [][NextHom]_vars

----------------------------------------------------------------------------
(* src/src/cycle_detection.py: the bitset cycle detector *)

\* sorted(adj): the keys of the adjacency mapping in ascending order
SortedKeys(a) == SortSet(DOMAIN a)

\* index[v]: the 0-based position of v in sorted(adj)
IndexIn(vs, v) == IndexOf(vs, v) - 1

RECURSIVE BitAnd(_, _)
\* a & b on non-negative integers
BitAnd(a, b) ==
    IF a = 0 \/ b = 0 THEN 0
    ELSE (a % 2) * (b % 2) + 2 * BitAnd(a \div 2, b \div 2)

RECURSIVE BitOr(_, _)
\* a | b on non-negative integers
BitOr(a, b) ==
    IF a = 0 THEN b
    ELSE IF b = 0 THEN a
    ELSE (IF a % 2 = 1 \/ b % 2 = 1 THEN 1 ELSE 0) + 2 * BitOr(a \div 2, b \div 2)

\* (x >> j) & 1
TestBit(x, j) == (x \div 2^j) % 2 = 1

\* x & ~((1 << (i+1)) - 1): the bits of x above position i
ClearUpTo(x, i) == x - (x % 2^(i + 1))

RECURSIVE LowestBit(_)
\* (x & -x).bit_length() - 1 for x > 0
LowestBit(x) == IF x % 2 = 1 THEN 0 ELSE 1 + LowestBit(x \div 2)

RECURSIVE BitIndices(_)
\* the loop "while m: lsb = m & -m; ...; m ^= lsb": the set bits, lowest first
BitIndices(x) ==
    IF x = 0 THEN <<>>
    ELSE LET k == LowestBit(x) IN <<k>> \o BitIndices(x - 2^k)

RECURSIVE XorBits(_, _, _, _)
\* a mask builder that toggles bit index[u] instead of setting it
XorBits(nbrs, vs, p, bits) ==
    IF p > Len(nbrs) THEN bits
    ELSE XorBits(nbrs, vs, p + 1,
                 IF nbrs[p] \in Range(vs)
                 THEN IF TestBit(bits, IndexIn(vs, nbrs[p]))
                      THEN bits - 2^IndexIn(vs, nbrs[p])
                      ELSE bits + 2^IndexIn(vs, nbrs[p])
                 ELSE bits)

RECURSIVE OrBits(_, _, _, _)
\* the loop over adj[v]: bits |= 1 << index[u] for every u that is a key
OrBits(nbrs, vs, p, bits) ==
    IF p > Len(nbrs) THEN bits
    ELSE OrBits(nbrs, vs, p + 1,
                IF nbrs[p] \in Range(vs)
                THEN BitOr(bits, 2^IndexIn(vs, nbrs[p]))
                ELSE bits)

\* neighbors_bits, indexed 1..n for the vertices of sorted(adj)
NeighborsBits(a) ==
    LET vs == SortedKeys(a)
    IN [i \in 1..Len(vs) |-> OrBits(a[vs[i]], vs, 1, 0)]

\* a triangle detector that keeps every common neighbour k, not only k > j
detect_3_cycles_unmasked(a) ==
    LET vs == SortedKeys(a)
        nb == NeighborsBits(a)
        ForJ(i, j) ==
            LET ks == BitIndices(BitAnd(nb[i + 1], nb[j + 1]))
            IN [x \in 1..Len(ks) |-> <<vs[i + 1], vs[j + 1], vs[ks[x] + 1]>>]
        ForI(i) ==
            LET js == BitIndices(ClearUpTo(nb[i + 1], i))
            IN Flatten([y \in 1..Len(js) |-> ForJ(i, js[y])])
    IN Flatten([i1 \in 1..Len(vs) |-> ForI(i1 - 1)])

\* detect_3_cycles(adj), bitset variant: for i, for each neighbour j > i, for
\* each common neighbour k > j, append (vertices[i], vertices[j], vertices[k])
detect_3_cycles(a) ==
    LET vs == SortedKeys(a)
        nb == NeighborsBits(a)
        ForJ(i, j) ==
            LET common == ClearUpTo(BitAnd(nb[i + 1], nb[j + 1]), j)
                ks == BitIndices(common)
            IN [x \in 1..Len(ks) |-> <<vs[i + 1], vs[j + 1], vs[ks[x] + 1]>>]
        ForI(i) ==
            LET js == BitIndices(ClearUpTo(nb[i + 1], i))
            IN Flatten([y \in 1..Len(js) |-> ForJ(i, js[y])])
    IN Flatten([i1 \in 1..Len(vs) |-> ForI(i1 - 1)])

\* the pairs (x, y), x < y, of positions of a list of length n, in loop order
PairsInOrder(n) ==
    Flatten([x \in 1..n |-> [d \in 1..(n - x) |-> <<x, x + d>>]])

\* a 4-cycle detector that does not skip the pairs i, j joined by an edge
detect_4_cycles_no_skip(a) ==
    LET vs == SortedKeys(a)
        nb == NeighborsBits(a)
        n == Len(vs)
        ForPair(i, j) ==
            LET common_indices == BitIndices(BitAnd(nb[i + 1], nb[j + 1]))
                prs == PairsInOrder(Len(common_indices))
            IN [q \in 1..Len(prs) |->
                  <<vs[i + 1], vs[common_indices[prs[q][1]] + 1],
                    vs[j + 1], vs[common_indices[prs[q][2]] + 1]>>]
        ij == PairsInOrder(n)
    IN Flatten([q \in 1..Len(ij) |-> ForPair(ij[q][1] - 1, ij[q][2] - 1)])

\* detect_4_cycles(adj), bitset variant: for i < j not joined by an edge, for
\* every pair u < w of common-neighbour indices, append
\* (vertices[i], vertices[u], vertices[j], vertices[w])
detect_4_cycles(a) ==
    LET vs == SortedKeys(a)
        nb == NeighborsBits(a)
        n == Len(vs)
        ForPair(i, j) ==
            IF TestBit(nb[i + 1], j) THEN <<>>
            ELSE LET common == BitAnd(nb[i + 1], nb[j + 1])
                     common_indices == BitIndices(common)
                     prs == PairsInOrder(Len(common_indices))
                 IN IF common = 0 THEN <<>>
                    ELSE [q \in 1..Len(prs) |->
                            <<vs[i + 1], vs[common_indices[prs[q][1]] + 1],
                              vs[j + 1], vs[common_indices[prs[q][2]] + 1]>>]
        ij == PairsInOrder(n)
    IN Flatten([q \in 1..Len(ij) |-> ForPair(ij[q][1] - 1, ij[q][2] - 1)])

RECURSIVE AddFourCycles_no_diag(_, _, _, _)
\* a loop over four_cycles that adds the two triangles and not the diagonal
AddFourCycles_no_diag(cycles, p, faceset, all_edges) ==
    IF p > Len(cycles) THEN faceset
    ELSE LET tri1 == Sorted(<<cycles[p][1], cycles[p][2], cycles[p][3]>>)
             tri2 == Sorted(<<cycles[p][1], cycles[p][3], cycles[p][4]>>)
         IN AddFourCycles_no_diag(cycles, p + 1, faceset \cup {tri1, tri2},
                                  all_edges)

\* the loop over four_cycles in build_simplicial_complex; returns the face set
RECURSIVE AddFourCycles(_, _, _, _)
AddFourCycles(cycles, p, faceset, all_edges) ==
    IF p > Len(cycles) THEN faceset
    ELSE LET v == cycles[p][1]
             u == cycles[p][2]
             v_prime == cycles[p][3]
             w == cycles[p][4]
             diag_edge == Sorted(<<v, v_prime>>)
             tri1 == Sorted(<<v, u, v_prime>>)
             tri2 == Sorted(<<v, v_prime, w>>)
             withDiag == IF diag_edge \notin all_edges
                         THEN faceset \cup {diag_edge} ELSE faceset
         IN AddFourCycles(cycles, p + 1, withDiag \cup {tri1, tri2},
                          all_edges \cup {diag_edge})

\* a seeding that adds the pair (v, u) for every neighbour u of v, without
\* the test u > v
SeedFaces_every_pair(vs, a, tris) ==
    {<<v>> : v \in vs}
    \cup {<<e[1], e[2]>> : e \in {e \in vs \X UNION {Range(a[v]) : v \in vs} :
                                     e[2] \in Range(a[e[1]])}}
    \cup Range(tris)

\* steps 2-4 of build_simplicial_complex: vertices, edges (v, u) with u > v,
\* and the given triangles
SeedFaces(vs, a, tris) ==
    {<<v>> : v \in vs}
    \cup {<<e[1], e[2]>> : e \in {e \in vs \X UNION {Range(a[v]) : v \in vs} :
                                     e[2] \in Range(a[e[1]]) /\ e[2] > e[1]}}
    \cup Range(tris)

\* all_edges after step 3 of build_simplicial_complex
OriginalEdges(vs, a) == {f \in SeedFaces(vs, a, <<>>) : Len(f) = 2}

\* build_simplicial_complex(vertices, adj) of src/src/cycle_detection.py
build_simplicial_complex(vs, a) ==
    [X |-> SortSet(vs),
     A |-> AddFourCycles(detect_4_cycles(a), 1,
                         SeedFaces(vs, a, detect_3_cycles(a)),
                         OriginalEdges(vs, a))]

----------------------------------------------------------------------------
(* src/cycle_detection.py: the set-based cycle detector *)

\* set(adj[v])
NeighborSet(a, v) == Range(a[v])

\* the neighbours of v that "for u in Nv" and "for w in Nv" do not skip for v
Upper(a, v) == {u \in NeighborSet(a, v) : u > v}

RECURSIVE SetWalksOver(_, _)
SetWalksOver(a, S) ==
    IF S = {} THEN {<<>>}
    ELSE LET v == Min(S)
             rest == SetWalksOver(a, S \ {v})
         IN UNION {{(v :> p) @@ f : f \in rest} : p \in Orderings(Upper(a, v))}

\* "for u in Nv" walks the set Nv in the order of its hash table, which the
\* labels' hashes and the history of the set decide; both loops walk the same
\* unchanged set, so in the same order.  A walk gives, for every key v, the
\* order in which the neighbours above v are met (the others are skipped).
SetWalks(a) == SetWalksOver(a, DOMAIN a)

\* the body of detect_3_cycles' "for v" loop, set-based variant: for u in N(v)
\* with u > v, for w in N(v) with w > u, append (v, u, w) when w is in N(u);
\* both inner loops meet the neighbours above v in the order us
TrianglesAt(a, v, us) ==
    LET ForU(u) ==
            LET Closes(w) == w > u /\ w \in NeighborSet(a, u)
                ws == SelectSeq(us, Closes)
            IN [x \in 1..Len(ws) |-> <<v, u, ws[x]>>]
    IN Flatten([y \in 1..Len(us) |-> ForU(us[y])])

\* detect_3_cycles(adj), set-based variant: the keys in ascending order, each
\* with its neighbour set walked in the order walk[v]
detect_3_cycles_set(a, walk) ==
    LET vs == SortedKeys(a)
    IN Flatten([i \in 1..Len(vs) |-> TrianglesAt(a, vs[i], walk[vs[i]])])

\* the lists the "for v" body can append for the key v, over the orders in
\* which the set N(v) can be walked
BlocksAt(a, v) == {TrianglesAt(a, v, us) : us \in Orderings(Upper(a, v))}

RECURSIVE TriangleListsFrom(_, _, _)
TriangleListsFrom(a, vs, i) ==
    IF i > Len(vs) THEN {<<>>}
    ELSE LET rest == TriangleListsFrom(a, vs, i + 1)
         IN UNION {{b \o r : r \in rest} : b \in BlocksAt(a, vs[i])}

\* the lists detect_3_cycles(adj), set-based variant, can return: the set of
\* detect_3_cycles_set(a, walk) over the walks of SetWalks(a), put together
\* key by key
TriangleLists(a) == TriangleListsFrom(a, SortedKeys(a), 1)

\* a seen check that keeps every candidate
KeepEvery(cands, p, seen) == cands

RECURSIVE KeepUnseen(_, _, _)
\* the seen check of the set-based detect_4_cycles: a candidate is appended
\* only if its vertex set has not been recorded
KeepUnseen(cands, p, seen) ==
    IF p > Len(cands) THEN <<>>
    ELSE LET cycle_set == Range(cands[p])
         IN IF cycle_set \notin seen
            THEN <<cands[p]>> \o KeepUnseen(cands, p + 1, seen \cup {cycle_set})
            ELSE KeepUnseen(cands, p + 1, seen)

\* detect_4_cycles(adj), set-based variant
detect_4_cycles_set(a) ==
    LET vs == SortedKeys(a)
        ForPair(i, j) ==
            LET v == vs[i]
                v_prime == vs[j]
                common == NeighborSet(a, v) \cap NeighborSet(a, v_prime)
                sorted_common == SortSet(common)
                prs == PairsInOrder(Len(sorted_common))
            IN IF v_prime \in NeighborSet(a, v) \/ Cardinality(common) < 2
               THEN <<>>
               ELSE [q \in 1..Len(prs) |->
                       <<v, sorted_common[prs[q][1]], v_prime,
                         sorted_common[prs[q][2]]>>]
        ij == PairsInOrder(Len(vs))
    IN KeepUnseen(Flatten([q \in 1..Len(ij) |-> ForPair(ij[q][1], ij[q][2])]),
                  1, {})

\* build_simplicial_complex(vertices, adj) of src/cycle_detection.py: the same
\* steps, on the set-based detectors' lists
build_simplicial_complex_set(vs, a, walk) ==
    [X |-> SortSet(vs),
     A |-> AddFourCycles(detect_4_cycles_set(a), 1,
                         SeedFaces(vs, a, detect_3_cycles_set(a, walk)),
                         OriginalEdges(vs, a))]

----------------------------------------------------------------------------
(* src/src/simplicial_homology_from_graph.py and src/src/preprocess.py *)

\* homology_from_graph(vertices, adj, mod_2); every A_n of the call walks the
\* set A in the same order, here the ascending one: another walk permutes the
\* rows and columns of the boundary matrices and leaves the returned triple as
\* it is (SpecChain computes the matrices for every walk of the set)
homology_from_graph(vs, a, mod2) ==
    LET fs == SortFaces(build_simplicial_complex(vs, a).A)
    IN <<homology(0, fs, mod2), homology(1, fs, mod2), homology(2, fs, mod2)>>

\* homology_from_graph(vertices, adj, mod_2) of
\* src/simplicial_homology_from_graph.py, which imports the set-based builder
homology_from_graph_set(vs, a, mod2, walk) ==
    LET fs == SortFaces(build_simplicial_complex_set(vs, a, walk).A)
    IN <<homology(0, fs, mod2), homology(1, fs, mod2), homology(2, fs, mod2)>>

\* an absorption test that asks for strictly more neighbours
Dominates_strict(nb, rem, v, w) ==
    /\ w # v
    /\ w \notin rem
    /\ Cardinality(nb[w]) > Cardinality(nb[v])
    /\ nb[v] \subseteq (nb[w] \cup {w})

\* the test of preprocess's inner loop: w may absorb v
Dominates(nb, rem, v, w) ==
    /\ w # v
    /\ w \notin rem
    /\ Cardinality(nb[w]) >= Cardinality(nb[v])
    /\ nb[v] \subseteq (nb[w] \cup {w})

\* the keys v for which the inner loop of one scan finds an absorbing w
Removable(nb, rem) ==
    {v \in DOMAIN nb : v \notin rem /\ \E w \in DOMAIN nb : Dominates(nb, rem, v, w)}

\* a removal that deletes the key v and leaves v in its neighbours' sets
RemoveVertex_keep_edges(nb, v) == [u \in (DOMAIN nb) \ {v} |-> nb[u]]

\* "for u in Nv: neighbors[u].discard(v)" followed by "del neighbors[v]"
RemoveVertex(nb, v) ==
    [u \in (DOMAIN nb) \ {v} |-> IF u \in nb[v] THEN nb[u] \ {v} ELSE nb[u]]

\* sort_neighborhoods(adj): every neighbour list is sorted in place
sort_neighborhoods(a) == [u \in DOMAIN a |-> Sorted(a[u])]

RECURSIVE LowerBound(_, _, _, _)
\* remove_vertex's binary search in the list l, with lo and hi counted from 0
LowerBound(l, v, lo, hi) ==
    IF lo < hi
    THEN LET mid == (lo + hi) \div 2
         IN IF l[mid + 1] < v THEN LowerBound(l, v, mid + 1, hi)
                              ELSE LowerBound(l, v, lo, mid)
    ELSE lo

\* list.pop(lo), with lo counted from 0
PopAt(l, lo) == SubSeq(l, 1, lo) \o SubSeq(l, lo + 2, Len(l))

RECURSIVE RemoveFromLists(_, _, _)
\* remove_vertex's "for u in adj[v]" from its i-th step on (i counted from 0):
\* v is popped from adj[u] where the binary search finds it; a neighbour u
\* that is not a key raises KeyError and leaves the mapping as it then is
RemoveFromLists(a, v, i) ==
    IF i >= Len(a[v]) THEN [adj |-> a, raised |-> FALSE]
    ELSE LET u == a[v][i + 1]
         IN IF u \notin DOMAIN a THEN [adj |-> a, raised |-> TRUE]
            ELSE LET lo == LowerBound(a[u], v, 0, Len(a[u]))
                     found == lo < Len(a[u]) /\ a[u][lo + 1] = v
                 IN RemoveFromLists(
                        IF found THEN [a EXCEPT ![u] = PopAt(a[u], lo)] ELSE a,
                        v, i + 1)

\* remove_vertex(adj, v): adj after the call, which changes it in place, and
\* whether the call raised
remove_vertex(a, v) ==
    LET r == RemoveFromLists(a, v, 0)
    IN IF r.raised THEN r
       ELSE [adj |-> [u \in (DOMAIN r.adj) \ {v} |-> r.adj[u]],
             raised |-> FALSE]

----------------------------------------------------------------------------
(* Spec: the detectors, the builders and homology_from_graph on one graph *)

GraphLabels == 1..MaxV

\* the unordered pairs of distinct vertices of vs
PairsOf(vs) == {e \in SUBSET vs : Cardinality(e) = 2}

\* the adjacency mapping of the simple symmetric graph (vs, es), every
\* neighbour list ascending
AdjOf(vs, es) == [v \in vs |-> SortSet({u \in vs : {u, v} \in es})]

\* the simple symmetric graphs on at most MaxV vertices
BoundedGraphs ==
    UNION {{[vertices |-> vs, adj |-> AdjOf(vs, es)] : es \in SUBSET PairsOf(vs)}
           : vs \in SUBSET GraphLabels}

\* vertices_c5 and adj_c5 of src/simplicial_homology_from_graph.py
Pentagon ==
    [vertices |-> 1..5,
     adj |-> [v \in 1..5 |-> CASE v = 1 -> <<2, 5>>
                               [] v = 2 -> <<1, 3>>
                               [] v = 3 -> <<2, 4>>
                               [] v = 4 -> <<5, 3>>
                               [] v = 5 -> <<1, 4>>]]

\* two disjoint triangles, on {1, 2, 3} and on {4, 5, 6}
TwoTriangles ==
    [vertices |-> 1..6,
     adj |-> AdjOf(1..6, {{1, 2}, {1, 3}, {2, 3}, {4, 5}, {4, 6}, {5, 6}})]

\* the pentagon with a sixth vertex hanging from vertex 1
PentagonWithTail ==
    [vertices |-> 1..6,
     adj |-> AdjOf(1..6, {{1, 2}, {2, 3}, {3, 4}, {4, 5}, {1, 5}, {1, 6}})]

NamedGraphs == {Pentagon, TwoTriangles, PentagonWithTail}

\* the pipeline has been handed the graph g and has not started
InitPipeline(g) ==
    /\ pc = "start"
    /\ vertices = g.vertices
    /\ adj = g.adj
    /\ triangles = <<>>
    /\ four_cycles = <<>>
    /\ triangles_set = <<>>
    /\ four_cycles_set = <<>>
    /\ A = {}
    /\ A_set = {}
    /\ neighbors = <<>>
    /\ removed = {}
    /\ changed = FALSE
    /\ reduced = [vertices |-> {}, adj |-> <<>>]
    /\ Hred = NoH
    /\ H = NoH
    /\ H_set = NoH
    /\ ker = NoH
    /\ rk = NoH
    /\ delta_n = NoMatrix
    /\ delta_n_plus_one = NoMatrix
    /\ X = <<>>
    /\ faces = <<>>
    /\ faces0 = <<>>
    /\ valid = FALSE
    /\ completed = <<>>
    /\ NoRun

Init ==
    /\ \E g \in BoundedGraphs \cup NamedGraphs : InitPipeline(g)
    /\ mod_2 \in BOOLEAN
    /\ NoListing

\* both detectors of src/src/cycle_detection.py are run on adj
DetectBitset ==
    /\ pc = "start"
    /\ triangles' = detect_3_cycles(adj)
    /\ four_cycles' = detect_4_cycles(adj)
    /\ pc' = "bitset"
    /\ UNCHANGED <<faces, facesVars, homVars, vertices, adj, triangles_set,
                   four_cycles_set, A, preVars, A_set, deltaVars, listVars,
                   runVars>>

\* both detectors of src/cycle_detection.py are run on adj
DetectSet ==
    /\ pc = "bitset"
    /\ four_cycles_set' = detect_4_cycles_set(adj)
    /\ pc' = "detected"
    /\ triangles_set' \in TriangleLists(adj)
    /\ UNCHANGED <<faces, facesVars, homVars, vertices, adj, triangles,
                   four_cycles, A, preVars, A_set, deltaVars, listVars,
                   runVars>>

\* within one run equal sets built in the same way are walked in the same
\* order, so the detect_3_cycles call inside build_simplicial_complex walks the
\* neighbour sets as the call of DetectSet did: for every key an order that
\* gives the key's triangles as triangles_set lists them (the orders that give
\* the same list differ in nothing the detector returns)
WalkOfRun ==
    [v \in DOMAIN adj |->
       LET HasV(t) == t[1] = v
       IN CHOOSE us \in Orderings(Upper(adj, v)) :
              TrianglesAt(adj, v, us) = SelectSeq(triangles_set, HasV)]

\* homology_from_graph line 14: X, A = build_simplicial_complex(vertices, adj),
\* with the builder of src/src/cycle_detection.py and with the builder of
\* src/cycle_detection.py; is_simp_cplx(X, A) is evaluated on the pair returned
Build ==
    /\ pc = "detected"
    /\ LET built == build_simplicial_complex(vertices, adj)
           walk == WalkOfRun
           listed == SortFaces(built.A)
       IN /\ A' = built.A
          /\ X' = built.X
          /\ A_set' = build_simplicial_complex_set(vertices, adj, walk).A
          /\ valid' = is_simp_cplx(built.X, listed)
    /\ pc' = "built"
    /\ UNCHANGED <<faces, faces0, completed, homVars, vertices, adj,
                   detectVars, preVars, deltaVars, listVars, runVars>>

\* homology_from_graph(vertices, adj, mod_2) returns its triple, in
\* src/src/simplicial_homology_from_graph.py and in
\* src/simplicial_homology_from_graph.py
HomologyFromGraph ==
    /\ pc = "built"
    /\ H' = homology_from_graph(vertices, adj, mod_2)
    /\ LET walk == WalkOfRun
       IN H_set' = homology_from_graph_set(vertices, adj, mod_2, walk)
    /\ pc' = "hom"
    /\ UNCHANGED <<faces, facesVars, mod_2, ker, rk, graphVars, A_set,
                   deltaVars, listVars, runVars>>

Next == DetectBitset \/ DetectSet \/ Build \/ HomologyFromGraph

Spec == Init /\ [][Next]_vars

----------------------------------------------------------------------------
(* SpecPre: preprocess(adj) of src/src/preprocess.py on one graph, with
   homology_from_graph on the graph it is given and on the graph it returns *)

\* homology_from_graph(vertices, adj, mod_2) on the graph itself
HomologyOfInput ==
    /\ pc = "start"
    /\ H' = homology_from_graph(vertices, adj, mod_2)
    /\ pc' = "hom"
    /\ UNCHANGED <<faces, facesVars, mod_2, H_set, ker, rk, graphVars, A_set,
                   deltaVars, listVars, runVars>>

\* preprocess lines 40-46: the copy, the neighbour sets, removed, changed
PreprocessStart ==
    /\ pc = "hom"
    /\ neighbors' = [v \in DOMAIN adj |-> Range(adj[v])]
    /\ removed' = {}
    /\ changed' = TRUE
    /\ pc' = "pre"
    /\ UNCHANGED <<faces, facesVars, homVars, vertices, adj, detectVars, A,
                   reduced, Hred, A_set, deltaVars, listVars, runVars>>

\* preprocess lines 47-69: one iteration of the while loop.  The scan walks
\* list(neighbors.keys()), the insertion order of the caller's dict, and removes
\* the first key that some other key absorbs, or finds none and leaves changed
\* False.  adj is a function and carries no key order, so the scan may remove
\* any absorbed vertex: a vertex removed at one iteration precedes, in key
\* order, only vertices that are removed later or never, hence every sequence
\* of such choices is the scan of some key order, and every key order gives
\* one of them.
PreprocessScan ==
    /\ pc = "pre"
    /\ changed
    /\ LET cand == Removable(neighbors, removed)
       IN IF cand = {}
          THEN /\ changed' = FALSE
               /\ UNCHANGED <<neighbors, removed>>
          ELSE \E v \in cand :
                   /\ neighbors' = RemoveVertex(neighbors, v)
                   /\ removed' = removed \cup {v}
                   /\ changed' = TRUE
    /\ UNCHANGED <<pc, faces, facesVars, homVars, vertices, adj, detectVars,
                   A, reduced, Hred, A_set, deltaVars, listVars, runVars>>

\* preprocess lines 72-73: the reduced vertex set and sorted adjacency lists
PreprocessReturn ==
    /\ pc = "pre"
    /\ ~changed
    /\ reduced' = [vertices |-> DOMAIN neighbors,
                   adj |-> [v \in DOMAIN neighbors |-> SortSet(neighbors[v])]]
    /\ pc' = "reduced"
    /\ UNCHANGED <<faces, facesVars, homVars, vertices, adj, detectVars, A,
                   neighbors, removed, changed, Hred, A_set, deltaVars,
                   listVars, runVars>>

\* homology_from_graph on the graph preprocess returned
HomologyReduced ==
    /\ pc = "reduced"
    /\ Hred' = homology_from_graph(reduced.vertices, reduced.adj, mod_2)
    /\ pc' = "done"
    /\ UNCHANGED <<faces, facesVars, homVars, vertices, adj, detectVars, A,
                   neighbors, removed, changed, reduced, A_set, deltaVars,
                   listVars, runVars>>

NextPre ==
    \/ HomologyOfInput
    \/ PreprocessStart
    \/ PreprocessScan
    \/ PreprocessReturn
    \/ HomologyReduced

SpecPre == Init /\ [][NextPre]_vars

\* preprocess is straight-line sequential code: an iteration of its while
\* loop that can be taken is taken, and so is its return
SpecFair == SpecPre /\ WF_vars(PreprocessScan) /\ WF_vars(PreprocessReturn)

----------------------------------------------------------------------------
(* SpecChain: homology(0..2, A, mod_2) on the complexes of SpecHom and on the
   face sets build_simplicial_complex returns *)

\* the face sets returned by the two builders for the graphs on at most MaxV
\* vertices
BuiltComplexes ==
    UNION {{build_simplicial_complex(g.vertices, g.adj).A}
           \cup {build_simplicial_complex_set(g.vertices, g.adj, walk).A
                   : walk \in SetWalks(g.adj)}
             : g \in BoundedGraphs}

\* homology_from_graph hands homology() the set A as the builder returned it,
\* and A_n walks it in any order; the built sets are those within the bound
\* MaxOrders (with MaxV = 4 the sets of the graphs with at most three edges: a
\* set with four edges on four vertices has 576 walks or more and is not part
\* of this specification, nor is a set of NamedGraphs)
InitChain ==
    /\ pc = "h0"
    /\ faces \in FaceSequences(ValidComplexes)
                 \cup WalksOf(WithinOrders(BuiltComplexes))
    /\ mod_2 \in BOOLEAN
    /\ H = NoH
    /\ H_set = NoH
    /\ ker = NoH
    /\ rk = NoH
    /\ X = <<>>
    /\ faces0 = faces
    /\ valid = TRUE
    /\ completed = <<>>
    /\ delta_n = NoMatrix
    /\ delta_n_plus_one = NoMatrix
    /\ NoGraph
    /\ NoRun

SpecChain == InitChain /\ [][NextHom]_vars

----------------------------------------------------------------------------
(* SpecListing: the detectors and the builder on two listings of one graph *)

\* labels that are no vertex of any graph
UnknownLabels == {0, MaxV + 1}

\* the ways adj_alt lists the graph of adj: every neighbour list reversed,
\* every neighbour list followed by its reverse (each neighbour twice), or
\* the list of vertex d followed by the unknown label u
Listings(vs) ==
    {<<"reversed">>, <<"repeated">>}
    \cup {<<"dangling", d, u>> : d \in vs, u \in UnknownLabels}

Relist(a, l) ==
    [v \in DOMAIN a |->
       CASE l[1] = "reversed" -> Reverse(a[v])
         [] l[1] = "repeated" -> a[v] \o Reverse(a[v])
         [] l[1] = "dangling" -> IF v = l[2] THEN Append(a[v], l[3]) ELSE a[v]]

NoAlt == [triangles |-> <<>>, four_cycles |-> <<>>, triangles_set |-> <<>>,
          four_cycles_set |-> <<>>, A |-> {}]

InitListing ==
    /\ \E g \in BoundedGraphs : InitPipeline(g)
    /\ mod_2 = FALSE
    /\ listing \in Listings(vertices)
    /\ adj_alt = Relist(adj, listing)
    /\ alt = NoAlt

\* the four detectors are run on adj_alt
DetectRelisted ==
    /\ pc = "bitset"
    /\ pc' = "relisted"
    /\ LET found == [alt EXCEPT
                       !.triangles = detect_3_cycles(adj_alt),
                       !.four_cycles = detect_4_cycles(adj_alt),
                       !.four_cycles_set = detect_4_cycles_set(adj_alt)]
       IN \E listed \in TriangleLists(adj_alt) :
              alt' = [found EXCEPT !.triangles_set = listed]
    /\ UNCHANGED <<faces, facesVars, homVars, graphVars, A_set, deltaVars,
                   listing, adj_alt, runVars>>

\* build_simplicial_complex of src/src/cycle_detection.py on adj_alt
BuildRelisted ==
    /\ pc = "relisted"
    /\ alt' = [alt EXCEPT !.A = build_simplicial_complex(vertices, adj_alt).A]
    /\ pc' = "rebuilt"
    /\ UNCHANGED <<faces, facesVars, homVars, graphVars, A_set, deltaVars,
                   listing, adj_alt, runVars>>

NextListing == DetectBitset \/ DetectRelisted \/ BuildRelisted

SpecListing == InitListing /\ [][NextListing]_vars

----------------------------------------------------------------------------
(* SpecAdj: sort_neighborhoods and remove_vertex of src/src/preprocess.py,
   which change the mapping they are given; adj_alt is that mapping *)

\* the caller holds the graph with every neighbour list descending
InitAdj ==
    /\ \E g \in BoundedGraphs : InitPipeline(g)
    /\ mod_2 = FALSE
    /\ listing = <<"reversed">>
    /\ adj_alt = Relist(adj, listing)
    /\ alt = NoAlt

\* sort_neighborhoods(adj_alt)
SortNeighborhoods ==
    /\ pc = "start"
    /\ adj_alt' = sort_neighborhoods(adj_alt)
    /\ pc' = "sorted"
    /\ UNCHANGED <<faces, facesVars, homVars, graphVars, A_set, deltaVars,
                   listing, alt, runVars>>

\* remove_vertex(adj_alt, v) for a key v, before or after the lists are sorted
RemoveVertexCall ==
    /\ pc \in {"start", "sorted"}
    /\ \E v \in DOMAIN adj_alt :
           LET r == remove_vertex(adj_alt, v)
           IN /\ adj_alt' = r.adj
              /\ pc' = IF r.raised THEN "raised" ELSE pc
    /\ UNCHANGED <<faces, facesVars, homVars, graphVars, A_set, deltaVars,
                   listing, alt, runVars>>

NextAdj == SortNeighborhoods \/ RemoveVertexCall

SpecAdj == InitAdj /\ [][NextAdj]_vars

----------------------------------------------------------------------------
(* SpecRun: run() of src/src/simplicial_homology_from_graph.py on a batch *)

\* the well-formed entries of graphs.json: simple symmetric graphs on 1..k
GoodGraphs ==
    UNION {{[vertices |-> 1..k, adj |-> AdjOf(1..k, es)]
              : es \in SUBSET PairsOf(1..k)} : k \in 0..MaxBatchV}

\* entries whose adjacency_list has no key for the last vertex
BadGraphs ==
    {[vertices |-> g.vertices,
      adj |-> [v \in g.vertices \ {Cardinality(g.vertices)} |-> g.adj[v]]]
       : g \in {h \in GoodGraphs : h.vertices # {}}}

Batches == UNION {[1..n -> GoodGraphs \cup BadGraphs] : n \in 0..MaxBatch}

\* "neighbors = {v: set(adj[v]) for v in vertices}" raises KeyError when a
\* vertex is no key of adj; nothing in homology_from_graph catches it
Raises(g) == \E v \in g.vertices : v \notin DOMAIN g.adj

InitRun ==
    /\ pc = "run"
    /\ graphs \in Batches
    /\ gi = 1
    /\ printed = <<>>
    /\ mod_2 \in BOOLEAN
    /\ H = NoH
    /\ H_set = NoH
    /\ ker = NoH
    /\ rk = NoH
    /\ delta_n = NoMatrix
    /\ delta_n_plus_one = NoMatrix
    /\ X = <<>>
    /\ faces = <<>>
    /\ faces0 = <<>>
    /\ valid = FALSE
    /\ completed = <<>>
    /\ NoGraph

\* run() lines 49-58: one iteration of "for graph in graphs".  The call of
\* homology_from_graph is not inside any try statement, so an exception it
\* raises leaves the loop and run(); otherwise the triple is printed
RunGraph ==
    /\ pc = "run"
    /\ gi <= Len(graphs)
    /\ IF Raises(graphs[gi])
       THEN /\ pc' = "raised"
            /\ UNCHANGED <<gi, printed>>
       ELSE /\ printed' = Append(printed,
                     [graph |-> gi,
                      H |-> homology_from_graph(graphs[gi].vertices,
                                                graphs[gi].adj, mod_2)])
            /\ gi' = gi + 1
            /\ pc' = pc
    /\ UNCHANGED <<graphs, faces, facesVars, homVars, graphVars, A_set,
                   deltaVars, listVars>>

\* the for loop is exhausted and run() returns
RunReturn ==
    /\ pc = "run"
    /\ gi > Len(graphs)
    /\ pc' = "returned"
    /\ UNCHANGED <<faces, facesVars, homVars, graphVars, A_set, deltaVars,
                   listVars, runVars>>

NextRun == RunGraph \/ RunReturn

SpecRun == InitRun /\ [][NextRun]_vars

----------------------------------------------------------------------------
(* Properties of validation and completion (SpecFaces, SpecTwice) *)

\* every non-empty subset of every face of S, written ascending, is in S
DownwardClosed(S) ==
    \A f \in S : \A T \in (SUBSET Range(f)) \ {{}} : SortSet(T) \in S

\* every vertex of the list has its singleton face in S
Covered(verts, S) == \A i \in 1..Len(verts) : <<verts[i]>> \in S

\* C5: is_simp_cplx(vertices, faces) returns True if and only if every vertex
\* has its singleton face in faces and every non-empty proper subset of every
\* face is in faces.
\* Stated in the direction the claim singles out: it returns False whenever
\* some vertex has no singleton face (or a subset is missing), so whenever it
\* returned True both (a) and (b) hold.
C5_ValidOnlyIfCoveredAndClosed ==
    pc = "checked" /\ valid =>
        /\ Covered(X, FacesSet(faces))
        /\ DownwardClosed(FacesSet(faces))

\* C6: the face set returned by one call of complete_simp_cplx is
\* downward-closed, and every original face is still present.
C6_CompleteIsDownwardClosed ==
    pc = "completed" =>
        /\ DownwardClosed(FacesSet(completed))
        /\ \A i \in 1..Len(faces0) : faces0[i] \in Range(completed)

\* C6 witness: a list that was not downward-closed and held a face of three
\* or more vertices has been completed.
C6_Witness ==
    /\ pc = "completed"
    /\ ~DownwardClosed(FacesSet(faces0))
    /\ \E i \in 1..Len(faces0) : Len(faces0[i]) >= 3
    /\ Len(completed) > Len(faces0)

\* C7: complete_simp_cplx is idempotent: the second application adds no entry,
\* so the list after two applications equals the list after one (SpecTwice).
C7_CompleteIdempotent ==
    pc = "completed2" => faces = completed

\* C7 witness: the first application added entries and the second has run.
C7_Witness ==
    /\ pc = "completed2"
    /\ Len(completed) > Len(faces0)
    /\ \E i \in 1..Len(faces0) : Len(faces0[i]) >= 3

----------------------------------------------------------------------------
(* Properties of homology() (SpecHom) *)

RECURSIVE SpanGF2(_, _, _)
\* the GF(2) span of rows 1..r of m, as a set of 0/1 vectors of length cols
SpanGF2(m, r, cols) ==
    IF r = 0 THEN {[c \in 1..cols |-> 0]}
    ELSE LET S == SpanGF2(m, r - 1, cols)
             v == [c \in 1..cols |-> m[r][c] % 2]
         IN S \cup {[c \in 1..cols |-> (s[c] + v[c]) % 2] : s \in S}

\* the rank over GF(2): the dimension d with 2^d vectors in the row span
RankGF2(M) ==
    LET n == Cardinality(SpanGF2(M.m, M.rows, M.cols))
    IN CHOOSE d \in 0..M.rows : 2^d = n

NullityGF2(M) == M.cols - RankGF2(M)

\* C3: with mod_2=True, homology(n, faces) is nullity(d_n) - rank(d_{n+1}) with
\* both the nullity and the rank taken over GF(2), for n = 0, 1, 2.
C3_Mod2HomologyIsGF2 ==
    pc = "done" /\ mod_2 =>
        \A n \in 0..2 :
            H[n + 1] = NullityGF2(boundary(n, faces))
                       - RankGF2(boundary(n + 1, faces))

\* C4: on each coefficient-field path, the rank of d_n (computed by the call
\* homology(n-1, ...)) plus the nullity of d_n (computed by the call
\* homology(n, ...)) equals the number of n-faces.
C4_RankNullity ==
    pc = "done" =>
        \A n \in 1..2 : rk[n] + ker[n + 1] = Len(A_n(n, faces))

----------------------------------------------------------------------------
(* Properties of the graph pipeline (Spec, SpecPre) *)

\* u and v are joined by an edge of the input graph
Adjacent(u, v) == u \in Range(adj[v]) /\ v \in Range(adj[u])

\* the triples v < u < w of mutually adjacent vertices
GraphTriangles ==
    {t \in vertices \X vertices \X vertices :
        /\ t[1] < t[2] /\ t[2] < t[3]
        /\ Adjacent(t[1], t[2]) /\ Adjacent(t[1], t[3]) /\ Adjacent(t[2], t[3])}

\* the tuples (i, u, j, w): i < j not adjacent, u < w common neighbours of both
GraphSquares ==
    {c \in vertices \X vertices \X vertices \X vertices :
        /\ c[1] < c[3] /\ ~Adjacent(c[1], c[3])
        /\ c[2] < c[4]
        /\ Adjacent(c[2], c[1]) /\ Adjacent(c[2], c[3])
        /\ Adjacent(c[4], c[1]) /\ Adjacent(c[4], c[3])}

\* no entry of the list occurs twice
NoRepeat(s) == \A p, q \in 1..Len(s) : p # q => s[p] # s[q]

\* the input is the chordless 4-cycle 1-2-3-4-1
IsSquareGraph ==
    /\ vertices = {1, 2, 3, 4}
    /\ adj = AdjOf(vertices, {{1, 2}, {2, 3}, {3, 4}, {1, 4}})

\* C1: for the chordless 4-cycle 1-2-3-4-1 the builder adds one diagonal and
\* two triangles and homology_from_graph returns (1, 0, 0).
C1_SquareIsFilledDisk ==
    IsSquareGraph /\ pc = "hom" =>
        /\ Cardinality({f \in A : Len(f) = 2}) = 5
        /\ Cardinality({f \in A : Len(f) = 3}) = 2
        /\ H = <<1, 0, 0>>

\* C2: the triple homology_from_graph returns on the graph preprocess returns
\* equals the triple it returns on the graph itself.
C2_ReductionInvariance ==
    pc = "done" => Hred = H

\* C8: both detect_3_cycles variants return exactly one tuple (v, u, w),
\* v < u < w, per set of three mutually adjacent vertices, and nothing else.
C8_TrianglesExactlyOnce ==
    pc \notin {"start", "bitset"} =>
        /\ NoRepeat(triangles)
        /\ Range(triangles) = GraphTriangles
        /\ NoRepeat(triangles_set)
        /\ Range(triangles_set) = GraphTriangles

\* C8 witness: both detectors have run on a graph with several triangles.
C8_Witness ==
    /\ pc = "detected"
    /\ Cardinality(GraphTriangles) >= 2
    /\ Len(triangles) >= 2
    /\ Len(triangles_set) >= 2

\* C9: the bitset detect_4_cycles returns (i, u, j, w) exactly for the i < j
\* that are not adjacent and the u < w that are common neighbours of both,
\* each such tuple once and no other tuple.
C9_FourCyclesExactly ==
    pc # "start" =>
        /\ NoRepeat(four_cycles)
        /\ Range(four_cycles) = GraphSquares

\* C9 witness: the detector has reported a tuple on a graph that also has an
\* adjacent pair with two common neighbours (which it must skip).
C9_Witness ==
    /\ pc = "bitset"
    /\ Len(four_cycles) >= 1
    /\ \E i, j \in vertices :
          /\ i < j /\ Adjacent(i, j)
          /\ Cardinality({u \in vertices : Adjacent(u, i) /\ Adjacent(u, j)}) >= 2

\* C10: every output 4-cycle (v, u, v', w) of the bitset detector has v < v'
\* and u < w, and no two reported tuples have the same four vertices.
C10_FourCyclesCanonicalOncePerSet ==
    pc # "start" =>
        /\ \A p \in 1..Len(four_cycles) :
              /\ four_cycles[p][1] < four_cycles[p][3]
              /\ four_cycles[p][2] < four_cycles[p][4]
        /\ \A p, q \in 1..Len(four_cycles) :
              p # q => Range(four_cycles[p]) # Range(four_cycles[q])

----------------------------------------------------------------------------
(* Properties of the listing of the adjacency mapping (SpecListing) *)

\* C11: the detectors do not depend on the order of the neighbour lists nor on
\* repeated neighbours: on a listing of the same graph with every list
\* reversed, or with every neighbour written twice, detect_3_cycles and
\* detect_4_cycles of both variants return the same triangles and the same
\* 4-cycle tuples as on the ascending lists (for the set-based detect_3_cycles:
\* as every list that it can return on the ascending lists)
C11_DetectorsListingIndependent ==
    (pc \in {"relisted", "rebuilt"} /\ listing[1] \in {"reversed", "repeated"})
    => /\ Range(alt.triangles) = Range(triangles)
       /\ Range(alt.four_cycles) = Range(four_cycles)
       /\ \A listed \in TriangleLists(adj) :
             Range(alt.triangles_set) = Range(listed)
       /\ Range(alt.four_cycles_set) = Range(detect_4_cycles_set(adj))

\* a graph with a triangle and a 4-cycle, given with every neighbour twice
C11_Witness ==
    /\ pc = "relisted"
    /\ listing[1] = "repeated"
    /\ triangles # <<>>
    /\ four_cycles # <<>>
    /\ alt.four_cycles # <<>>
    /\ \E v \in vertices : Len(adj_alt[v]) >= 4

----------------------------------------------------------------------------
(* Properties of the complex builder (Spec) *)

\* the faces the builder is to return for the given triangles and 4-cycles
ExpectedFaces(tris, cycles) ==
    {<<v>> : v \in vertices}
    \cup {<<e[1], e[2]>> : e \in {e \in vertices \X vertices :
                                     e[1] < e[2] /\ Adjacent(e[1], e[2])}}
    \cup Range(tris)
    \cup UNION {{SortSet({c[1], c[3]}), SortSet({c[1], c[2], c[3]}),
                 SortSet({c[1], c[3], c[4]})} : c \in Range(cycles)}

\* C12: for every simple symmetric graph the face set returned by
\* build_simplicial_complex (either variant) is exactly the singletons of the
\* vertices, the sorted pairs of the edges, the detected triangles and, for
\* every reported 4-cycle (v, u, v', w), the diagonal {v, v'} and the triangles
\* {v, u, v'} and {v, v', w}
C12_BuiltFacesExactly ==
    pc \in {"built", "hom", "pre", "reduced", "done"}
    => /\ A = ExpectedFaces(triangles, four_cycles)
       /\ A_set = ExpectedFaces(triangles_set, four_cycles_set)

\* a built graph with an edge, a triangle and a reported 4-cycle
C12_Witness ==
    /\ pc = "built"
    /\ triangles # <<>>
    /\ four_cycles # <<>>
    /\ four_cycles_set # <<>>
    /\ \E f \in A : Len(f) = 3 /\ f \notin Range(triangles)

----------------------------------------------------------------------------
(* Properties of adjacency entries naming no vertex (SpecListing) *)

\* C13: when a neighbour list names a label that is no vertex, the bitset
\* detectors and the builder of src/src/cycle_detection.py ignore the entry:
\* the detectors return what they return without it and no face of the built
\* complex contains the unknown label
C13_UnknownLabelIgnored ==
    (pc = "rebuilt" /\ listing[1] = "dangling")
    => /\ alt.triangles = triangles
       /\ alt.four_cycles = four_cycles
       /\ \A f \in alt.A : listing[3] \notin Range(f)

----------------------------------------------------------------------------
(* Worked examples (Spec) *)

\* the input is the pentagon 1-2-3-4-5-1
IsPentagon == vertices = Pentagon.vertices /\ adj = Pentagon.adj

\* the five vertices and the five edges of the pentagon
PentagonFaces ==
    {<<v>> : v \in 1..5} \cup {<<1, 2>>, <<2, 3>>, <<3, 4>>, <<4, 5>>, <<1, 5>>}

\* C14: for the pentagon the detectors report no triangle and no 4-cycle, the
\* built complex consists of the 5 vertices and the 5 edges only, and
\* homology_from_graph returns (1, 1, 0)
C14_PentagonIsCircle ==
    IsPentagon =>
      /\ pc # "start" => triangles = <<>> /\ four_cycles = <<>>
      /\ pc \notin {"start", "bitset"}
           => triangles_set = <<>> /\ four_cycles_set = <<>>
      /\ pc \notin {"start", "bitset", "detected"}
           => A = PentagonFaces /\ A_set = PentagonFaces
      /\ pc \notin {"start", "bitset", "detected", "built"}
           => H = <<1, 1, 0>> /\ H_set = <<1, 1, 0>>

\* homology_from_graph has returned for the pentagon, over Z/2
C14_Witness == IsPentagon /\ pc = "hom" /\ mod_2 /\ H[2] = 1

\* the input is the two disjoint triangles
IsTwoTriangles == vertices = TwoTriangles.vertices /\ adj = TwoTriangles.adj

\* C15: for two disjoint triangles homology_from_graph returns (2, 0, 0): two
\* components, both triangles filled
C15_TwoTrianglesTwoComponents ==
    (IsTwoTriangles /\ pc \notin {"start", "bitset", "detected", "built"})
    => /\ H = <<2, 0, 0>>
       /\ H_set = <<2, 0, 0>>
       /\ {<<1, 2, 3>>, <<4, 5, 6>>} \subseteq A

\* homology_from_graph has returned for the two triangles, over Q
C15_Witness == IsTwoTriangles /\ pc = "hom" /\ ~mod_2 /\ H[1] = 2

----------------------------------------------------------------------------
(* Properties of the batch driver (SpecRun) *)

\* C16: a failure while computing the homology of one graph aborts only that
\* graph: when run() is over, the triple of every graph of the batch whose
\* computation does not fail has been printed, also of those that follow a
\* failing graph
C16_FailureAbortsOnlyThatGraph ==
    pc \in {"returned", "raised"}
    => \A i \in 1..Len(graphs) :
          ~Raises(graphs[i]) => \E q \in 1..Len(printed) : printed[q].graph = i

----------------------------------------------------------------------------
(* Properties of preprocess (SpecFair) *)

\* the neighbours of v in the graph preprocess returned
ReducedN(v) == Range(reduced.adj[v])

\* no vertex of the returned graph is absorbed by another one
ReducedIsFixpoint ==
    \A v, w \in reduced.vertices :
        v # w => ~(ReducedN(v) \subseteq (ReducedN(w) \cup {w}))

\* C17: for every finite simple symmetric graph preprocess terminates, and
\* in the graph it returns there is no pair of distinct vertices v, w with
\* N(v) a subset of N(w) + {w}
C17_PreprocessTerminatesAtFixpoint ==
    /\ (pc = "pre") ~> (pc = "reduced")
    /\ [](pc \in {"reduced", "done"} => ReducedIsFixpoint)

\* preprocess has removed a vertex and returned a graph that still has pairs
\* of vertices
C17_Witness ==
    /\ pc = "reduced"
    /\ removed # {}
    /\ Cardinality(reduced.vertices) >= 2

----------------------------------------------------------------------------
(* Properties of the boundary matrices (SpecHom) *)

\* the dimension n of the last call homology(n, faces, mod_2)
LastN == CASE pc = "h1" -> 0 [] pc = "h2" -> 1 [] pc = "done" -> 2

HomologyCalled == pc \in {"h1", "h2", "done"}

\* the faces of n+1 vertices in the order in which the input lists them
ListedFaces(n) == LET IsN(f) == Len(f) = n + 1 IN SelectSeq(faces, IsN)

\* the faces of n+1 vertices in sorted-tuple order
SortedFaces(n) == SortFaces(Range(ListedFaces(n)))

\* M is the boundary matrix for the row basis rowB and the column basis colB:
\* one row per face of rowB, one column per face of colB, and the entry of
\* (row of colB[c] without its p-th vertex, column c) is (-1)^p, p counted
\* from 0, every other entry 0
IsBoundaryWrt(M, rowB, colB) ==
    /\ M.rows = Len(rowB)
    /\ M.cols = Len(colB)
    /\ \A r \in 1..Len(rowB) : \A c \in 1..Len(colB) :
          LET ps == {p \in 0..(Len(colB[c]) - 1) :
                       rowB[r] = [k \in 1..(Len(colB[c]) - 1) |->
                                    IF k <= p THEN colB[c][k] ELSE colB[c][k + 1]]}
          IN IF ps = {} THEN M.m[r][c] = 0
             ELSE \A p \in ps : M.m[r][c] = (IF p % 2 = 0 THEN 1 ELSE -1)

\* C18: for a valid complex and a dimension n, boundary(n, faces) has one row
\* per (n-1)-face and one column per n-face; in the column of s = (v_0..v_n)
\* the entry in the row of s without v_p is (-1)^p for every p, and every
\* other entry of the column is 0
C18_BoundaryEntries ==
    HomologyCalled
    => IsBoundaryWrt(delta_n, ListedFaces(LastN - 1), ListedFaces(LastN))

\* the boundary of a complex with a triangle has been computed in dimension 2
C18_Witness ==
    /\ pc = "done"
    /\ delta_n.cols >= 1
    /\ delta_n.rows >= 3
    /\ \E r \in 1..delta_n.rows : delta_n.m[r][1] = -1

\* C19 as stated: the basis of ChainSpace_n used by boundary() is the list of
\* the n-faces in sorted-tuple order, whatever the order of the input
C19_BasisIsSortedOrder ==
    HomologyCalled
    => /\ IsBoundaryWrt(delta_n, SortedFaces(LastN - 1), SortedFaces(LastN))
       /\ IsBoundaryWrt(delta_n_plus_one, SortedFaces(LastN),
                        SortedFaces(LastN + 1))

\* C19: the basis of ChainSpace_n used by boundary() is the list of the
\* n-faces in the order in which they appear in the input; the columns of
\* boundary(n) and the rows of boundary(n+1) are this same sequence
C19_BasisIsInputOrder ==
    HomologyCalled
    => /\ delta_n.cols = delta_n_plus_one.rows
       /\ IsBoundaryWrt(delta_n, ListedFaces(LastN - 1), ListedFaces(LastN))
       /\ IsBoundaryWrt(delta_n_plus_one, ListedFaces(LastN),
                        ListedFaces(LastN + 1))

\* both matrices of homology(1, ...) have been computed on a face list that
\* is not in sorted-tuple order and has a triangle
C19_Witness ==
    /\ pc = "h2"
    /\ ListedFaces(1) # SortedFaces(1)
    /\ delta_n_plus_one.cols >= 1
    /\ delta_n.rows >= 3

\* C20: degenerate boundary maps are zero maps.  boundary(0, faces) has no
\* rows and one column per vertex, rank 0 and nullity the number of 0-faces,
\* so H0 = #vertices - rank(d_1); boundary(n+1, faces) above the top
\* dimension has no columns and rank 0, so there H_n = nullity(d_n), in
\* particular H2 = nullity(d_2) for a complex without 3-faces
C20_DegenerateBoundariesAreZero ==
    /\ pc = "h1"
       => /\ delta_n.rows = 0
          /\ delta_n.cols = Len(ListedFaces(0))
          /\ rank(delta_n, mod_2) = 0
          /\ ker[1] = Len(ListedFaces(0))
          /\ H[1] = Len(ListedFaces(0)) - rk[1]
    /\ (HomologyCalled /\ ListedFaces(LastN + 1) = <<>>)
       => /\ delta_n_plus_one.cols = 0
          /\ rk[LastN + 1] = 0
          /\ H[LastN + 1] = ker[LastN + 1]

\* H2 has been computed for a complex with a triangle and without 3-faces
C20_Witness ==
    /\ pc = "done"
    /\ ListedFaces(3) = <<>>
    /\ delta_n.cols >= 1
    /\ ker[1] >= 3

----------------------------------------------------------------------------
(* Properties of boundary() on face sets that are not closed (SpecOpen) *)

\* the face s without its vertex at position p, p counted from 0
Without(s, p) ==
    [k \in 1..(Len(s) - 1) |-> IF k <= p THEN s[k] ELSE s[k + 1]]

\* the positions of s whose deleted-vertex face is among the listed faces of
\* one vertex less
PresentPositions(s) ==
    {p \in 0..(Len(s) - 1) : Without(s, p) \in Range(ListedFaces(Len(s) - 2))}

\* the rows of column c of M that hold a non-zero entry
NonZeroRows(M, c) == {r \in 1..M.rows : M.m[r][c] # 0}

\* in M, computed for dimension n, every column holds (-1)^p in the row of
\* each subface that is present and nothing else
UnderCounted(M, n) ==
    /\ M.rows = Len(ListedFaces(n - 1))
    /\ M.cols = Len(ListedFaces(n))
    /\ \A c \in 1..M.cols :
          LET s == ListedFaces(n)[c]
          IN /\ Cardinality(NonZeroRows(M, c)) = Cardinality(PresentPositions(s))
             /\ \A p \in PresentPositions(s) :
                   \E r \in 1..M.rows :
                      /\ ListedFaces(n - 1)[r] = Without(s, p)
                      /\ M.m[r][c] = (IF p % 2 = 0 THEN 1 ELSE -1)

\* C21: on a face set that is not downward-closed boundary(n, faces) raises
\* nothing and returns a matrix: a codimension-1 subface missing from the
\* (n-1)-faces contributes no entry to its column, and the entry of every
\* subface that is present is (-1)^p as on a closed set
C21_MissingSubfacesContributeNothing ==
    HomologyCalled
    => /\ UnderCounted(delta_n, LastN)
       /\ UnderCounted(delta_n_plus_one, LastN + 1)

\* a column of boundary(2) or boundary(1) with a subface present and a
\* subface missing
C21_Witness ==
    /\ pc \in {"h2", "done"}
    /\ \E c \in 1..delta_n.cols :
          /\ PresentPositions(ListedFaces(LastN)[c]) # {}
          /\ Cardinality(PresentPositions(ListedFaces(LastN)[c])) < LastN + 1
          /\ NonZeroRows(delta_n, c) # {}

----------------------------------------------------------------------------
(* Properties of the caller's objects (SpecFaces) *)

\* C23: complete_simp_cplx treats its input as immutable: after the call the
\* face list that the caller passed in has the same length and the same
\* entries as before the call
C23_CallerListUnchanged ==
    pc = "completed" => Len(faces) = Len(faces0) /\ faces = faces0

----------------------------------------------------------------------------
(* Properties of the built complex (Spec) *)

\* f is a strictly increasing tuple of 1 to 3 vertices of the graph
IsFaceOfGraph(f) ==
    /\ Len(f) \in 1..3
    /\ \A k \in 1..Len(f) : f[k] \in vertices
    /\ \A k \in 1..(Len(f) - 1) : f[k] < f[k + 1]

\* C22: for every simple symmetric graph whose adjacency keys are its
\* vertices, the face set returned by build_simplicial_complex is a valid
\* complex before any boundary or homology call: every face is a strictly
\* increasing tuple of 1 to 3 vertices, every non-empty subset of every face
\* is in the set, and is_simp_cplx(X, A) returns True
C22_BuiltComplexIsValid ==
    pc \in {"built", "hom", "pre", "reduced", "done"}
    => /\ \A f \in A : IsFaceOfGraph(f)
       /\ DownwardClosed(A)
       /\ Covered(X, A)
       /\ valid

\* a complex has been built that holds a diagonal that is no edge of the graph
C22_Witness ==
    /\ pc = "built"
    /\ four_cycles # <<>>
    /\ triangles # <<>>
    /\ \E f \in A : Len(f) = 2 /\ ~Adjacent(f[1], f[2])

----------------------------------------------------------------------------
(* Properties relating the two 4-cycle detectors (Spec) *)

\* the sets of four vertices that contain a non-adjacent pair having the
\* other two vertices as common neighbours
SquareSets == {Range(c) : c \in GraphSquares}

\* the vertex sets of the tuples of a list of cycles
VertexSets(cycles) == {Range(cycles[q]) : q \in 1..Len(cycles)}

\* C24: the set-based detect_4_cycles returns exactly one tuple for every set
\* of four vertices that contains a non-adjacent pair having the other two as
\* common neighbours, also when both diagonals of the square are non-edges,
\* and the vertex sets it reports are those of the bitset variant's tuples
C24_SetVariantOncePerSquare ==
    pc \notin {"start", "bitset"}
    => /\ \A S \in SquareSets :
             Cardinality({q \in 1..Len(four_cycles_set) :
                            Range(four_cycles_set[q]) = S}) = 1
       /\ VertexSets(four_cycles_set) = SquareSets
       /\ VertexSets(four_cycles_set) = VertexSets(four_cycles)

\* a square with both diagonals missing: the bitset variant reports it twice,
\* the set-based variant once
C24_Witness ==
    /\ pc = "detected"
    /\ Len(four_cycles_set) = 1
    /\ Len(four_cycles) = 2
    /\ VertexSets(four_cycles) = {vertices}

----------------------------------------------------------------------------
(* Properties of the preprocess loop (SpecPre) *)

InPreprocess == pc \in {"pre", "reduced", "done"}

\* the working mapping is the subgraph of the input induced by the vertices
\* that have not been removed, and it is symmetric
WorkingIsInducedSubgraph ==
    /\ removed \subseteq DOMAIN adj
    /\ DOMAIN neighbors = (DOMAIN adj) \ removed
    /\ \A v \in DOMAIN neighbors :
          /\ neighbors[v] \cap removed = {}
          /\ neighbors[v] = Range(adj[v]) \ removed
          /\ \A u \in neighbors[v] : u \in DOMAIN neighbors /\ v \in neighbors[u]

\* a non-empty input is never emptied
NeverEmptied ==
    /\ vertices # {} => DOMAIN neighbors # {}
    /\ (pc \in {"reduced", "done"} /\ vertices # {}) => reduced.vertices # {}
    /\ pc \in {"reduced", "done"} => reduced.vertices = DOMAIN neighbors

\* one iteration of the while loop removes exactly one vertex when its scan
\* succeeds and none when it fails
OneRemovalPerScan ==
    PreprocessScan =>
        IF changed'
        THEN \E v \in DOMAIN neighbors : /\ removed' = removed \cup {v}
                                          /\ v \notin removed
                                          /\ DOMAIN neighbors' = (DOMAIN neighbors) \ {v}
        ELSE removed' = removed /\ neighbors' = neighbors

\* C25: at every iteration of the preprocess loop on a simple symmetric graph
\* the working adjacency is a symmetric induced subgraph of the input (no
\* neighbour set mentions a removed vertex, u in N(v) iff v in N(u)), a
\* successful scan removes exactly one vertex, the caller's adjacency mapping
\* is unchanged, and a non-empty input is never reduced to the empty graph
C25_PreprocessLoopInvariants ==
    /\ [](InPreprocess => WorkingIsInducedSubgraph /\ NeverEmptied)
    /\ [][OneRemovalPerScan /\ adj' = adj /\ vertices' = vertices]_vars

\* the loop has removed two vertices and an edge is left
C25_Witness ==
    /\ pc = "pre"
    /\ changed
    /\ Cardinality(removed) >= 2
    /\ \E v \in DOMAIN neighbors : neighbors[v] # {}

----------------------------------------------------------------------------
(* Properties of consecutive boundary maps (SpecChain) *)

RECURSIVE DotUpTo(_, _, _, _, _)
\* the sum over j = 1..k of M[r][j] * N[j][c]
DotUpTo(M, N, r, c, k) ==
    IF k = 0 THEN 0 ELSE M.m[r][k] * N.m[k][c] + DotUpTo(M, N, r, c, k - 1)

\* the matrix product M N is the zero matrix
ProductIsZero(M, N) ==
    /\ M.cols = N.rows
    /\ \A r \in 1..M.rows : \A c \in 1..N.cols : DotUpTo(M, N, r, c, M.cols) = 0

TriangleAndPoint ==
    [vertices |-> 1..4, adj |-> AdjOf(1..4, {{1, 2}, {1, 4}, {2, 4}})]

====
